---------------------------- MODULE Spec2Model ----------------------------
(***************************************************************************)
(* A model of the auto-holidays package: the calendar cycle (AnyCycle),    *)
(* the person roster, and the LeavePlanner with its queries (calender,     *)
(* plan_duration, paid_holidays, verbose_paid_holidays, long_weekends).    *)
(*                                                                         *)
(* A date is the record [y, m, d] of a datetime.date.  toordinal and       *)
(* fromordinal are computed as the proleptic Gregorian calendar defines    *)
(* them, so that the date -> ordinal -> date round trip of long_weekends   *)
(* is a computation and not an identity.                                   *)
(*                                                                         *)
(* The outcome of a call is the record                                     *)
(*     [kind |-> "return", val |-> v]   or   [kind |-> "raise", exc |-> e] *)
(* The printing of long_weekends (verbose) writes to the standard output   *)
(* only and is not part of the state.                                      *)
(***************************************************************************)
EXTENDS Integers, Sequences, FiniteSets, TLC

VARIABLES
    cycle,      \* the AnyCycle object: [year, s, e] (s, e are _s, _e)
    roster,     \* the caller's list of PersonConstruct objects
    pc,         \* "cycle": no planner yet; "planner": constructed; "failed"
    start,      \* LeavePlanner.start
    end,        \* LeavePlanner.end
    persons,    \* LeavePlanner.persons
    op,         \* the last operation called
    args,       \* its arguments
    out,        \* its outcome
    firstPaid   \* the outcome of the first paid_holidays call, once made,
                \* and whether paid_holidays was called again since

vars == <<cycle, roster, pc, start, end, persons, op, args, out, firstPaid>>

--------------------------------------------------------------------------
(* Bounds of the model *)

MaxTolerance == 2

MaxMinCount == 2

\* the longest credit-date list and the longest credit-balance list a caller gives
MaxCreditDates == 3

MaxCreditBalances == 2

--------------------------------------------------------------------------
(* datetime.date *)

Date(y, m, d) == [y |-> y, m |-> m, d |-> d]

NoDate == Date(0, 0, 0)

IsLeap(y) == y % 4 = 0 /\ (y % 100 # 0 \/ y % 400 = 0)

DaysInMonth(y, m) ==
    IF m = 2 THEN (IF IsLeap(y) THEN 29 ELSE 28)
    ELSE IF m \in {4, 6, 9, 11} THEN 30 ELSE 31

\* the days of year y before the first day of month m
DaysBeforeMonth(y, m) ==
    <<0, 31, 59, 90, 120, 151, 181, 212, 243, 273, 304, 334>>[m]
        + (IF m > 2 /\ IsLeap(y) THEN 1 ELSE 0)

DaysBeforeYear(y) ==
    (y - 1) * 365 + ((y - 1) \div 4) - ((y - 1) \div 100) + ((y - 1) \div 400)

\* dt.date(y, m, d) raises ValueError unless the three form a real date
ValidDate(y, m, d) ==
    /\ y \in 1..9999
    /\ m \in 1..12
    /\ d >= 1
    /\ d <= DaysInMonth(y, m)

\* date.toordinal(): 0001-01-01 is day 1
toordinal(date) ==
    DaysBeforeYear(date.y) + DaysBeforeMonth(date.y, date.m) + date.d

\* date.fromordinal(n), as the calendar's 400/100/4/1-year cycles give it
fromordinal(n) ==
    LET n0   == n - 1
        n400 == n0 \div 146097
        r400 == n0 % 146097
        n100 == r400 \div 36524
        r100 == r400 % 36524
        n4   == r100 \div 1461
        r4   == r100 % 1461
        n1   == r4 \div 365
        r1   == r4 % 365
        year == n400 * 400 + 1 + n100 * 100 + n4 * 4 + n1
    IN  IF n1 = 4 \/ n100 = 4
        THEN Date(year - 1, 12, 31)
        ELSE LET month == CHOOSE m \in 1..12 :
                            /\ DaysBeforeMonth(year, m) <= r1
                            /\ r1 < DaysBeforeMonth(year, m) + DaysInMonth(year, m)
             IN  Date(year, month, r1 - DaysBeforeMonth(year, month) + 1)

\* a variant of weekday that counts from Sunday: Sunday is 0, Saturday is 6
weekday_from_sunday(date) == toordinal(date) % 7

\* date.weekday(): Monday is 0, Sunday is 6
weekday(date) == (toordinal(date) + 6) % 7

\* (a - b).days
DaysBetween(a, b) == toordinal(a) - toordinal(b)

\* a < b on dates
DateLT(a, b) ==
    \/ a.y < b.y
    \/ a.y = b.y /\ a.m < b.m
    \/ a.y = b.y /\ a.m = b.m /\ a.d < b.d

--------------------------------------------------------------------------
(* autoholidays.utils.calender *)

ENUMDays ==
    [MONDAY |-> 0, TUESDAY |-> 1, WEDNESDAY |-> 2, THURSDAY |-> 3,
     FRIDAY |-> 4, SATURDAY |-> 5, SUNDAY |-> 6]

MonthDayConstruct(day, month) == [day |-> day, month |-> month]

AnyCycle(year, s, e) == [year |-> year, s |-> s, e |-> e]

Return(v) == [kind |-> "return", val |-> v]

Raise(x) == [kind |-> "raise", exc |-> x]

\* AnyCycle.start
AnyCycle_start(c) ==
    IF ValidDate(c.year, c.s.month, c.s.day)
    THEN Return(Date(c.year, c.s.month, c.s.day))
    ELSE Raise("ValueError")

\* a variant of AnyCycle_end_year that rolls over unless startMonth < endMonth
AnyCycle_end_year_strict(c) ==
    IF c.s.month < c.e.month THEN c.year ELSE c.year + 1

\* the year of AnyCycle.end
AnyCycle_end_year(c) ==
    IF c.s.month <= c.e.month THEN c.year ELSE c.year + 1

\* AnyCycle.end
AnyCycle_end(c) ==
    IF ValidDate(AnyCycle_end_year(c), c.e.month, c.e.day)
    THEN Return(Date(AnyCycle_end_year(c), c.e.month, c.e.day))
    ELSE Raise("ValueError")

\* AnyCycle.duration: self.end is evaluated first, then self.start
AnyCycle_duration(c) ==
    IF AnyCycle_end(c).kind = "raise" THEN AnyCycle_end(c)
    ELSE IF AnyCycle_start(c).kind = "raise" THEN AnyCycle_start(c)
    ELSE Return(DaysBetween(AnyCycle_end(c).val, AnyCycle_start(c).val))

--------------------------------------------------------------------------
(* autoholidays.utils.holidays, leaves, person *)

HolidayConstruct(date) == [date |-> date, priority |-> 0]

CompWeeklyLeave(days) == [days |-> days]

\* the default of CompWeeklyLeave.days
DefaultDays == {"SUNDAY", "SATURDAY"}

\* CompWeeklyLeave.day_values: the values of the weekly-off days
day_values(comp_week_off) == {ENUMDays[day] : day \in comp_week_off.days}

PersonConstruct(name, days, holidays) ==
    [name |-> name,
     comp_week_off |-> CompWeeklyLeave(days),
     additional_holidays |-> holidays]

--------------------------------------------------------------------------
(* Python helpers *)

Range(seq) == {seq[i] : i \in DOMAIN seq}

\* list(set(seq)): the items of seq, each once, in some order
RECURSIVE list_of_set(_)
list_of_set(S) ==
    IF S = {} THEN <<>>
    ELSE LET x == CHOOSE x \in S : TRUE
         IN  <<x>> \o list_of_set(S \ {x})

\* seq, which is ascending, with x put at its place
RECURSIVE insert(_, _)
insert(seq, x) ==
    IF seq = <<>> THEN <<x>>
    ELSE IF DateLT(x, Head(seq)) THEN <<x>> \o seq
    ELSE <<Head(seq)>> \o insert(Tail(seq), x)

\* sorted(seq) on dates
RECURSIVE sorted(_)
sorted(seq) ==
    IF seq = <<>> THEN <<>>
    ELSE insert(sorted(Tail(seq)), Head(seq))

\* a dict comprehension {key(x) : value(x) for x in seq}: a later item
\* replaces an earlier one of the same key
LastWithName(seq, name) ==
    seq[CHOOSE i \in DOMAIN seq :
            /\ seq[i].name = name
            /\ \A j \in DOMAIN seq : seq[j].name = name => j <= i]

Names(seq) == {seq[i].name : i \in DOMAIN seq}

\* round(num / den, 5), in units of 0.00001 (ties go to the even digit)
RoundHalfEven(num, den) ==
    LET q == num \div den
        r == num % den
    IN  IF 2 * r < den THEN q
        ELSE IF 2 * r > den THEN q + 1
        ELSE IF q % 2 = 0 THEN q ELSE q + 1

round5(num, den) ==
    IF den > 0 THEN RoundHalfEven(num * 100000, den)
    ELSE 0 - RoundHalfEven(num * 100000, 0 - den)

\* str(n).zfill(3)
zfill3(n) ==
    IF n < 10 THEN "00" \o ToString(n)
    ELSE IF n < 100 THEN "0" \o ToString(n)
    ELSE ToString(n)

None == "None"

--------------------------------------------------------------------------
(* autoholidays.utils.leaves.CustomLeaves                                  *)
(*                                                                        *)
(* The constructor is modelled for its credit schedule: n_credit_md,      *)
(* n_credit_balance and carry_forward_balance.  name is given and the     *)
(* other fields are left at their defaults.  The items of n_credit_md are *)
(* MonthDayConstruct objects, which were validated when they were made.   *)

\* the value of a field together with its Python type: a list, or None
ListValue(items) == [type |-> "list", items |-> items]

NoneValue == [type |-> "NoneType", items |-> <<>>]

\* a keyword argument: left out, or given with a value
Missing == [given |-> FALSE, val |-> <<>>]

Given(v) == [given |-> TRUE, val |-> v]

\* the defaults of n_credit_md and n_credit_balance
Default_n_credit_md == <<MonthDayConstruct(1, 1)>>

Default_n_credit_balance == <<24>>

\* min_length and max_length of n_credit_balance: len(n_credit_md) is
\* evaluated once, in the class body, where n_credit_md is the default list
n_credit_balance_length == Len(Default_n_credit_md)

\* min(values) of a non-empty list
min(values) ==
    CHOOSE x \in Range(values) : \A y \in Range(values) : x <= y

\* __validate_credit_balance__: min() of an empty list raises ValueError,
\* a negative entry fails the assert, and the function returns nothing
validate_credit_balance(values) ==
    IF values = <<>> THEN Raise("ValueError")
    ELSE IF min(values) >= 0 THEN Return(NoneValue)
    ELSE Raise("AssertionError")

\* the n_credit_balance field: a value left out becomes the default and is
\* not validated; a value given passes the length limits, then the validator,
\* whose return value is stored
n_credit_balance_field(n_credit_balance) ==
    IF ~n_credit_balance.given THEN Return(ListValue(Default_n_credit_balance))
    ELSE IF Len(n_credit_balance.val) < n_credit_balance_length
    THEN Raise("too_short")
    ELSE IF Len(n_credit_balance.val) > n_credit_balance_length
    THEN Raise("too_long")
    ELSE validate_credit_balance(n_credit_balance.val)

\* CustomLeaves(name = ..., n_credit_md = ..., n_credit_balance = ...,
\* carry_forward_balance = ...): any failing field ends in ValidationError
CustomLeaves(n_credit_md, n_credit_balance, carry_forward_balance) ==
    IF \/ n_credit_balance_field(n_credit_balance).kind = "raise"
       \/ carry_forward_balance < 0
    THEN Raise("ValidationError")
    ELSE Return(
        [n_credit_md |-> IF n_credit_md.given THEN n_credit_md.val
                         ELSE Default_n_credit_md,
         n_credit_balance |-> n_credit_balance_field(n_credit_balance).val,
         carry_forward_balance |-> carry_forward_balance])

--------------------------------------------------------------------------
(* datetime_.date_range(start, end): every date from start to end, both   *)
(* included, one per day                                                  *)

date_range(st, en) ==
    IF DaysBetween(en, st) < 0 THEN <<>>
    ELSE [i \in 1..(DaysBetween(en, st) + 1) |->
            fromordinal(toordinal(st) + i - 1)]

--------------------------------------------------------------------------
(* autoholidays.core.planner.LeavePlanner *)

\* a variant of calender that leaves the end date out
calender_without_end(st, en) ==
    SubSeq(date_range(st, en), 1, Len(date_range(st, en)) - 1)

\* LeavePlanner.calender
calender(st, en) == date_range(st, en)

\* LeavePlanner.plan_duration
plan_duration(st, en) == DaysBetween(en, st)

\* a variant of paid_holidays_of that sorts the two lists without set()
paid_holidays_of_no_set(st, en, person) ==
    LET IsOff(date) == weekday(date) \in day_values(person.comp_week_off)
        comp_week_off == SelectSeq(calender(st, en), IsOff)
        additional_holidays ==
            [i \in DOMAIN person.additional_holidays |->
                person.additional_holidays[i].date]
        unique == sorted(comp_week_off \o additional_holidays)
    IN  [comp_week_off |-> comp_week_off,
         additional_holidays |-> additional_holidays,
         unique |-> unique,
         nunique |-> Len(unique)]

\* the entry of one person in paid_holidays
paid_holidays_of(st, en, person) ==
    LET IsOff(date) == weekday(date) \in day_values(person.comp_week_off)
        comp_week_off == SelectSeq(calender(st, en), IsOff)
        additional_holidays ==
            [i \in DOMAIN person.additional_holidays |->
                person.additional_holidays[i].date]
        unique == sorted(list_of_set(Range(comp_week_off \o additional_holidays)))
    IN  [comp_week_off |-> comp_week_off,
         additional_holidays |-> additional_holidays,
         unique |-> unique,
         nunique |-> Len(unique)]

\* LeavePlanner.paid_holidays
paid_holidays(st, en, ps) ==
    [name \in Names(ps) |-> paid_holidays_of(st, en, LastWithName(ps, name))]

\* LeavePlanner.verbose_paid_holidays
verbose_paid_holidays(st, en, ps) ==
    LET paid == paid_holidays(st, en, ps)
    IN  IF ps # <<>> /\ plan_duration(st, en) = 0
        THEN Raise("ZeroDivisionError")
        ELSE Return(
            [name \in Names(ps) |->
                [total |-> paid[name].nunique,
                 ratio |-> round5(paid[name].nunique, plan_duration(st, en))]])

\* a variant of group_loop that compares with tolerance and not tolerance + 1
RECURSIVE group_loop_no_plus_one(_, _, _, _)
group_loop_no_plus_one(ordinal_, i, groups, tolerance) ==
    IF i > Len(ordinal_) THEN groups
    ELSE IF ordinal_[i] - ordinal_[i - 1] <= tolerance
    THEN group_loop_no_plus_one(ordinal_, i + 1,
                    [groups EXCEPT ![Len(groups)] = Append(@, ordinal_[i])],
                    tolerance)
    ELSE group_loop_no_plus_one(ordinal_, i + 1,
                    Append(groups, <<ordinal_[i]>>), tolerance)

\* a variant of group_loop that joins two dates only when they are exactly
\* tolerance + 1 days apart
RECURSIVE group_loop_exact_gap(_, _, _, _)
group_loop_exact_gap(ordinal_, i, groups, tolerance) ==
    IF i > Len(ordinal_) THEN groups
    ELSE IF ordinal_[i] - ordinal_[i - 1] = tolerance + 1
    THEN group_loop_exact_gap(ordinal_, i + 1,
                    [groups EXCEPT ![Len(groups)] = Append(@, ordinal_[i])],
                    tolerance)
    ELSE group_loop_exact_gap(ordinal_, i + 1,
                    Append(groups, <<ordinal_[i]>>), tolerance)

\* the loop of long_weekends over zip(ordinal_, ordinal_[1:])
RECURSIVE group_loop(_, _, _, _)
group_loop(ordinal_, i, groups, tolerance) ==
    IF i > Len(ordinal_) THEN groups
    ELSE IF ordinal_[i] - ordinal_[i - 1] <= tolerance + 1
    THEN group_loop(ordinal_, i + 1,
                    [groups EXCEPT ![Len(groups)] = Append(@, ordinal_[i])],
                    tolerance)
    ELSE group_loop(ordinal_, i + 1, Append(groups, <<ordinal_[i]>>), tolerance)

\* the groups of ordinals of a non-empty list of ordinals
ordinal_groups(ordinal_, tolerance) ==
    group_loop(ordinal_, 2, << <<ordinal_[1]>> >>, tolerance)

\* the groups converted back to dates
date_groups(groups) ==
    [g \in DOMAIN groups |->
        [k \in DOMAIN groups[g] |-> fromordinal(groups[g][k])]]

\* a variant of vacation_label that numbers the vacations from 0
vacation_label_from_zero(idx) == "VACATION #" \o zfill3(idx)

\* the key of a vacation: idx is the position given by enumerate, from 0
vacation_label(idx) == "VACATION #" \o zfill3(idx + 1)

\* a variant of subgroups_of that keeps the groups longer than min_count
subgroups_of_longer(groups, min_count, values_in_subgroups) ==
    LET kept == {g \in DOMAIN groups : Len(groups[g]) > min_count}
        IdxOf(label) == CHOOSE g \in kept : vacation_label(g - 1) = label
        Entry(group) ==
            [start |-> group[1],
             end |-> group[Len(group)],
             duration |-> DaysBetween(group[Len(group)], group[1]) + 1,
             values |-> IF values_in_subgroups
                        THEN date_range(group[1], group[Len(group)])
                        ELSE None]
    IN  [label \in {vacation_label(g - 1) : g \in kept} |->
            Entry(groups[IdxOf(label)])]

\* a variant of subgroups_of whose duration is the number of dates of the group
subgroups_of_counting(groups, min_count, values_in_subgroups) ==
    LET kept == {g \in DOMAIN groups : Len(groups[g]) >= min_count}
        IdxOf(label) == CHOOSE g \in kept : vacation_label(g - 1) = label
        Entry(group) ==
            [start |-> group[1],
             end |-> group[Len(group)],
             duration |-> Len(group),
             values |-> IF values_in_subgroups
                        THEN date_range(group[1], group[Len(group)])
                        ELSE None]
    IN  [label \in {vacation_label(g - 1) : g \in kept} |->
            Entry(groups[IdxOf(label)])]

\* the subgroups dict of the groups of one person
subgroups_of(groups, min_count, values_in_subgroups) ==
    LET kept == {g \in DOMAIN groups : Len(groups[g]) >= min_count}
        IdxOf(label) == CHOOSE g \in kept : vacation_label(g - 1) = label
        Entry(group) ==
            [start |-> group[1],
             end |-> group[Len(group)],
             duration |-> DaysBetween(group[Len(group)], group[1]) + 1,
             values |-> IF values_in_subgroups
                        THEN date_range(group[1], group[Len(group)])
                        ELSE None]
    IN  [label \in {vacation_label(g - 1) : g \in kept} |->
            Entry(groups[IdxOf(label)])]

\* [date.toordinal() for date in unique]
to_ordinals(unique) == [i \in DOMAIN unique |-> toordinal(unique[i])]

\* the ordinals dict of long_weekends
ordinals_of(st, en, ps) ==
    LET paid == paid_holidays(st, en, ps)
    IN  [name \in DOMAIN paid |-> to_ordinals(paid[name].unique)]

\* the entry long_weekends computes for a list of ordinals
weekend_entry(ordinal_, tolerance, min_count, values_in_subgroups) ==
    LET groups == date_groups(ordinal_groups(ordinal_, tolerance))
    IN  [groups |-> groups,
         subgroups |-> subgroups_of(groups, min_count, values_in_subgroups)]

\* LeavePlanner.long_weekends
long_weekends(st, en, ps, tolerance, min_count, values_in_subgroups) ==
    LET ordinals == ordinals_of(st, en, ps)
    IN  IF \E i \in DOMAIN ps : ordinals[ps[i].name] = <<>>
        THEN Raise("IndexError")
        ELSE Return(
            [name \in Names(ps) |->
                weekend_entry(ordinals[name], tolerance, min_count,
                              values_in_subgroups)])

--------------------------------------------------------------------------
(* The inputs the model draws from *)

Jan(d) == Date(2025, 1, d)

AllDays == DOMAIN ENUMDays

DaySets == {{}, DefaultDays, AllDays, {"FRIDAY", "SUNDAY"}}

HolidayLists ==
    {<<>>,
     <<HolidayConstruct(Jan(4)), HolidayConstruct(Jan(5))>>,
     <<HolidayConstruct(Jan(8)), HolidayConstruct(Jan(3)),
       HolidayConstruct(Jan(4)), HolidayConstruct(Jan(8))>>}

FirstPersons ==
    {PersonConstruct("a", days, hs) : days \in DaySets, hs \in HolidayLists}

SecondPersons ==
    {PersonConstruct("b", {}, <<>>),
     PersonConstruct("b", DefaultDays, <<HolidayConstruct(Jan(3))>>)}

SmallRosters == {<<>>} \cup {<<p>> : p \in FirstPersons}

Rosters ==
    SmallRosters \cup {<<p, q>> : p \in FirstPersons, q \in SecondPersons}

\* twelve days of January 2025, and eight days over the end of 2024
ShortCycles ==
    {AnyCycle(2025, MonthDayConstruct(1, 1), MonthDayConstruct(12, 1)),
     AnyCycle(2024, MonthDayConstruct(30, 12), MonthDayConstruct(6, 1))}

\* a weekend, a single day, an end before the start, and February 30
EdgeCycles ==
    {AnyCycle(2025, MonthDayConstruct(4, 1), MonthDayConstruct(5, 1)),
     AnyCycle(2025, MonthDayConstruct(3, 1), MonthDayConstruct(3, 1)),
     AnyCycle(2025, MonthDayConstruct(10, 1), MonthDayConstruct(1, 1)),
     AnyCycle(2025, MonthDayConstruct(30, 2), MonthDayConstruct(1, 3))}

\* the example of the long_weekends docstring: ordinals [1, 2, 3, 5, 6, 9, 10]
DocOrdinals == <<1, 2, 3, 5, 6, 9, 10>>

\* January 2025 with the Friday before a weekend as a holiday
JanuaryCycle == AnyCycle(2025, MonthDayConstruct(1, 1), MonthDayConstruct(31, 1))

JanuaryRoster == <<PersonConstruct("jan", DefaultDays, <<HolidayConstruct(Jan(3))>>)>>

DocCycle == AnyCycle(1, MonthDayConstruct(1, 1), MonthDayConstruct(10, 1))

DocRoster ==
    <<PersonConstruct("doc", {},
        [i \in DOMAIN DocOrdinals |-> HolidayConstruct(Date(1, 1, DocOrdinals[i]))])>>

\* twelve days of January 2025 with New Year's Day, a Wednesday, as a holiday
NewYearCycle == AnyCycle(2025, MonthDayConstruct(1, 1), MonthDayConstruct(12, 1))

NewYearRoster == <<PersonConstruct("ny", DefaultDays, <<HolidayConstruct(Jan(1))>>)>>

MonthDays ==
    {MonthDayConstruct(1, 1), MonthDayConstruct(28, 2), MonthDayConstruct(29, 2),
     MonthDayConstruct(30, 2), MonthDayConstruct(31, 3), MonthDayConstruct(1, 4),
     MonthDayConstruct(1, 5), MonthDayConstruct(10, 5), MonthDayConstruct(31, 12)}

WideCycles ==
    {AnyCycle(year, s, e) : year \in {2023, 2025}, s \in MonthDays, e \in MonthDays}

LongWeekendArgs ==
    [tolerance : 0..MaxTolerance,
     min_count : 1..MaxMinCount,
     values_in_subgroups : BOOLEAN]

\* the lists of at most n items of S
ListsUpTo(S, n) == UNION {[1..k -> S] : k \in 0..n}

CreditDates == {MonthDayConstruct(1, 1), MonthDayConstruct(1, 7)}

CreditBalances == {0 - 1, 0, 12}

CustomLeavesArgs ==
    [n_credit_md : {Missing} \cup {Given(l) : l \in ListsUpTo(CreditDates, MaxCreditDates)},
     n_credit_balance :
        {Missing} \cup {Given(l) : l \in ListsUpTo(CreditBalances, MaxCreditBalances)},
     carry_forward_balance : {0 - 1, 0, 5}]

--------------------------------------------------------------------------
(* The state machine *)

NotCalled == [kind |-> "none"]

NoFirst == [set |-> FALSE, again |-> FALSE]

InitWith(c, r) ==
    /\ cycle = c
    /\ roster = r
    /\ pc = "cycle"
    /\ start = NoDate
    /\ end = NoDate
    /\ persons = <<>>
    /\ op = "none"
    /\ args = <<>>
    /\ out = NotCalled
    /\ firstPaid = NoFirst

Init ==
    \/ \E c \in ShortCycles, r \in Rosters : InitWith(c, r)
    \/ \E c \in EdgeCycles, r \in SmallRosters : InitWith(c, r)
    \/ InitWith(DocCycle, DocRoster)
    \/ InitWith(JanuaryCycle, JanuaryRoster)
    \/ InitWith(NewYearCycle, NewYearRoster)

InitCycle == \E c \in WideCycles : InitWith(c, <<>>)

\* a call that leaves the objects as they are and only has an outcome
Outcome(name, a, result) ==
    /\ op' = name
    /\ args' = a
    /\ out' = result
    /\ UNCHANGED <<cycle, roster, pc, start, end, persons>>

\* reading the computed fields of the cycle
Call_start ==
    /\ Outcome("start", <<>>, AnyCycle_start(cycle))
    /\ UNCHANGED firstPaid

Call_end ==
    /\ Outcome("end", <<>>, AnyCycle_end(cycle))
    /\ UNCHANGED firstPaid

Call_duration ==
    /\ Outcome("duration", <<>>, AnyCycle_duration(cycle))
    /\ UNCHANGED firstPaid

\* LeavePlanner(period, persons): reads period.start, then period.end
LeavePlanner_init ==
    /\ pc = "cycle"
    /\ op' = "__init__"
    /\ args' = <<>>
    /\ IF AnyCycle_start(cycle).kind = "raise" \/ AnyCycle_end(cycle).kind = "raise"
       THEN /\ pc' = "failed"
            /\ out' = Raise("ValueError")
            /\ UNCHANGED <<start, end, persons>>
       ELSE /\ pc' = "planner"
            /\ out' = Return(None)
            /\ start' = AnyCycle_start(cycle).val
            /\ end' = AnyCycle_end(cycle).val
            /\ persons' = roster
    /\ UNCHANGED <<cycle, roster, firstPaid>>

Call_calender ==
    /\ pc = "planner"
    /\ Outcome("calender", <<>>, Return(calender(start, end)))
    /\ UNCHANGED firstPaid

Call_plan_duration ==
    /\ pc = "planner"
    /\ Outcome("plan_duration", <<>>, Return(plan_duration(start, end)))
    /\ UNCHANGED firstPaid

\* a variant of Call_paid_holidays that uses up the holiday lists it reads
Call_paid_holidays_consuming ==
    /\ pc = "planner"
    /\ op' = "paid_holidays"
    /\ args' = <<>>
    /\ out' = Return(paid_holidays(start, end, persons))
    /\ persons' = [i \in DOMAIN persons |->
                      [persons[i] EXCEPT !.additional_holidays = <<>>]]
    /\ roster' = persons'
    /\ firstPaid' = IF firstPaid.set THEN [firstPaid EXCEPT !.again = TRUE]
                    ELSE [set |-> TRUE, again |-> FALSE, out |-> out']
    /\ UNCHANGED <<cycle, pc, start, end>>

Call_paid_holidays ==
    /\ pc = "planner"
    /\ Outcome("paid_holidays", <<>>, Return(paid_holidays(start, end, persons)))
    /\ firstPaid' = IF firstPaid.set THEN [firstPaid EXCEPT !.again = TRUE]
                    ELSE [set |-> TRUE, again |-> FALSE, out |-> out']

Call_verbose_paid_holidays ==
    /\ pc = "planner"
    /\ Outcome("verbose_paid_holidays", <<>>,
               verbose_paid_holidays(start, end, persons))
    /\ UNCHANGED firstPaid

Call_long_weekends ==
    /\ pc = "planner"
    /\ \E a \in LongWeekendArgs :
          Outcome("long_weekends", a,
                  long_weekends(start, end, persons, a.tolerance, a.min_count,
                                a.values_in_subgroups))
    /\ UNCHANGED firstPaid

Next ==
    \/ Call_start
    \/ Call_end
    \/ Call_duration
    \/ LeavePlanner_init
    \/ Call_calender
    \/ Call_plan_duration
    \/ Call_paid_holidays
    \/ Call_verbose_paid_holidays
    \/ Call_long_weekends

Spec == Init /\ [][Next]_vars

SpecCycle == InitCycle /\ [][Next]_vars

\* constructing CustomLeaves records, apart from any planner
InitLeaves == InitWith(JanuaryCycle, <<>>)

CustomLeaves_init ==
    \E a \in CustomLeavesArgs :
        /\ Outcome("CustomLeaves", a,
                   CustomLeaves(a.n_credit_md, a.n_credit_balance,
                                a.carry_forward_balance))
        /\ UNCHANGED firstPaid

NextLeaves == CustomLeaves_init

SpecLeaves == InitLeaves /\ [][NextLeaves]_vars

--------------------------------------------------------------------------
(* What the claims speak of *)

\* the person of the planner's roster with this name
PersonNamed(name) == LastWithName(persons, name)

LongWeekendsReturned == op = "long_weekends" /\ out.kind = "return"

\* the holiday list long_weekends starts from
UniqueOf(name) == paid_holidays(start, end, persons)[name].unique

RECURSIVE Flatten(_)
Flatten(groups) ==
    IF groups = <<>> THEN <<>> ELSE Head(groups) \o Flatten(Tail(groups))

\* the dates from start to end, both included, taken from the calendar's
\* (year, month, day) triples
PeriodDates ==
    {date \in {Date(y, m, d) : y \in start.y..end.y, m \in 1..12, d \in 1..31} :
        /\ ValidDate(date.y, date.m, date.d)
        /\ ~DateLT(date, start)
        /\ ~DateLT(end, date)}

WeeklyOffDates(person) ==
    {date \in PeriodDates :
        \E day \in person.comp_week_off.days : ENUMDays[day] = weekday(date)}

AdHocDates(person) ==
    {person.additional_holidays[i].date : i \in DOMAIN person.additional_holidays}

HolidaysInside(person) == AdHocDates(person) \subseteq PeriodDates

DocDates(days) == [i \in DOMAIN days |-> Date(1, 1, days[i])]

--------------------------------------------------------------------------
IsCutIntoRuns(groups, unique, tolerance) ==
    /\ Flatten(groups) = unique
    /\ \A g \in DOMAIN groups : groups[g] # <<>>
    /\ \A g \in DOMAIN groups : \A k \in 1..(Len(groups[g]) - 1) :
          DaysBetween(groups[g][k + 1], groups[g][k]) <= tolerance + 1
    /\ \A g \in 1..(Len(groups) - 1) :
          DaysBetween(groups[g + 1][1], groups[g][Len(groups[g])]) > tolerance + 1

(* C1: the groups of long_weekends are the holiday list cut into runs, in   *)
(* the original order: inside a group neighbours are at most tolerance + 1  *)
(* days apart, and the last date of a group and the first of the next are   *)
(* more than tolerance + 1 days apart.  The ordinals [1,2,3,5,6,9,10] give  *)
(* [[1,2,3],[5,6],[9,10]] at tolerance 0 and [[1,2,3,5,6],[9,10]] at 1.     *)
C1_GroupsAreMaximalRuns ==
    LongWeekendsReturned =>
        /\ \A name \in DOMAIN out.val :
              IsCutIntoRuns(out.val[name].groups, UniqueOf(name), args.tolerance)
        /\ (roster = DocRoster /\ cycle = DocCycle /\ args.tolerance = 0) =>
              out.val["doc"].groups =
                  <<DocDates(<<1, 2, 3>>), DocDates(<<5, 6>>), DocDates(<<9, 10>>)>>
        /\ (roster = DocRoster /\ cycle = DocCycle /\ args.tolerance = 1) =>
              out.val["doc"].groups =
                  <<DocDates(<<1, 2, 3, 5, 6>>), DocDates(<<9, 10>>)>>

C1_Witness ==
    /\ LongWeekendsReturned
    /\ roster = DocRoster
    /\ cycle = DocCycle
    /\ args.tolerance = 1
    /\ Len(out.val["doc"].groups) = 2
    /\ Len(out.val["doc"].groups[1]) = 5

--------------------------------------------------------------------------
SomeoneWithoutHolidays ==
    \E i \in DOMAIN persons : UniqueOf(persons[i].name) = <<>>

(* C2: long_weekends for a roster with a person whose holiday list is      *)
(* empty ends with the error EmptyHolidaySet.                              *)
C2_EmptyListRaisesEmptyHolidaySet ==
    (op = "long_weekends" /\ SomeoneWithoutHolidays) =>
        (out.kind = "raise" /\ out.exc = "EmptyHolidaySet")

--------------------------------------------------------------------------
(* C3: over a period with end > start, for a person whose ad-hoc holidays  *)
(* are all inside the period, the ratio of verbose_paid_holidays is in     *)
(* [0, 1] and the holiday count is at most plan_duration.                  *)
C3_RatioInUnitInterval ==
    (op = "verbose_paid_holidays" /\ out.kind = "return" /\ DateLT(start, end)) =>
        \A i \in DOMAIN persons :
            HolidaysInside(persons[i]) =>
                /\ out.val[persons[i].name].ratio >= 0
                /\ out.val[persons[i].name].ratio <= 100000
                /\ out.val[persons[i].name].total <= DaysBetween(end, start)

--------------------------------------------------------------------------
IsUniqueSortedOf(entry, person) ==
    /\ \A i, j \in DOMAIN entry.unique :
          i < j => DateLT(entry.unique[i], entry.unique[j])
    /\ Range(entry.unique) = WeeklyOffDates(person) \cup AdHocDates(person)
    /\ entry.nunique = Len(entry.unique)
    /\ entry.nunique = Cardinality(WeeklyOffDates(person) \cup AdHocDates(person))

--------------------------------------------------------------------------
PositionLabel(g) ==
    "VACATION #" \o (IF g < 10 THEN "00" ELSE IF g < 100 THEN "0" ELSE "")
                 \o ToString(g)

(* C5: a group is in the subgroups of its person exactly when its length   *)
(* is at least min_count, and every holiday, also one alone in its group,  *)
(* is in the groups.                                                       *)
C5_VacationsAreTheLongGroups ==
    LongWeekendsReturned =>
        \A name \in DOMAIN out.val :
            LET groups == out.val[name].groups
                subgroups == out.val[name].subgroups
            IN  /\ \A g \in DOMAIN groups :
                      (Len(groups[g]) >= args.min_count)
                          <=> (PositionLabel(g) \in DOMAIN subgroups)
                /\ DOMAIN subgroups \subseteq {PositionLabel(g) : g \in DOMAIN groups}
                /\ \A g \in DOMAIN groups :
                      PositionLabel(g) \in DOMAIN subgroups =>
                          /\ subgroups[PositionLabel(g)].start = groups[g][1]
                          /\ subgroups[PositionLabel(g)].end = groups[g][Len(groups[g])]
                /\ \A i \in DOMAIN UniqueOf(name) :
                      \E g \in DOMAIN groups : UniqueOf(name)[i] \in Range(groups[g])

\* the default min_count: a lone holiday is a group and no vacation, beside a
\* group of two that is one
C5_Witness ==
    /\ LongWeekendsReturned
    /\ args.min_count = 2
    /\ \E name \in DOMAIN out.val :
          LET groups == out.val[name].groups
              subgroups == out.val[name].subgroups
          IN  /\ \E g \in DOMAIN groups :
                    Len(groups[g]) = 1 /\ PositionLabel(g) \notin DOMAIN subgroups
              /\ \E g \in DOMAIN groups :
                    Len(groups[g]) = 2 /\ PositionLabel(g) \in DOMAIN subgroups

--------------------------------------------------------------------------
\* the number of dates d with a <= d < b, counted on the calendar
CountDates(a, b) ==
    Cardinality(
        {date \in {Date(y, m, d) : y \in a.y..b.y, m \in 1..12, d \in 1..31} :
            /\ ValidDate(date.y, date.m, date.d)
            /\ ~DateLT(date, a)
            /\ DateLT(date, b)})

WholeDays(a, b) == IF DateLT(b, a) THEN 0 - CountDates(b, a) ELSE CountDates(a, b)

ExpectedStart == Date(cycle.year, cycle.s.month, cycle.s.day)

ExpectedEnd ==
    IF cycle.s.month <= cycle.e.month
    THEN Date(cycle.year, cycle.e.month, cycle.e.day)
    ELSE Date(cycle.year + 1, cycle.e.month, cycle.e.day)

IsRealDate(date) == ValidDate(date.y, date.m, date.d)

AprilToMarch == AnyCycle(2025, MonthDayConstruct(1, 4), MonthDayConstruct(31, 3))

(* C6: the start of a cycle is (year, startMonthDay); its end is           *)
(* (year, endMonthDay) when startMonth <= endMonth and                     *)
(* (year + 1, endMonthDay) otherwise; its duration is the number of whole  *)
(* days from start to end.  The cycle of 2025 from April 1 to March 31 is  *)
(* 2025-04-01 .. 2026-03-31, of duration 364.                              *)
C6_CycleResolution ==
    /\ (op = "start" /\ IsRealDate(ExpectedStart)) => out = Return(ExpectedStart)
    /\ (op = "end" /\ IsRealDate(ExpectedEnd)) => out = Return(ExpectedEnd)
    /\ (op = "duration" /\ IsRealDate(ExpectedStart) /\ IsRealDate(ExpectedEnd)) =>
          out = Return(WholeDays(ExpectedStart, ExpectedEnd))
    /\ (op = "start" /\ cycle = AprilToMarch) => out = Return(Date(2025, 4, 1))
    /\ (op = "end" /\ cycle = AprilToMarch) => out = Return(Date(2026, 3, 31))
    /\ (op = "duration" /\ cycle = AprilToMarch) => out = Return(364)

C6_Witness ==
    /\ cycle = AprilToMarch
    /\ op = "duration"
    /\ out = Return(364)

--------------------------------------------------------------------------
(* C7: every cycle whose month/day pairs form real dates has end > start   *)
(* and a duration > 0.                                                     *)
C7_EndAfterStart ==
    /\ (op = "duration" /\ out.kind = "return") => out.val > 0
    /\ pc = "planner" => DateLT(start, end)

--------------------------------------------------------------------------
NextDay(date) ==
    IF date.d < DaysInMonth(date.y, date.m) THEN Date(date.y, date.m, date.d + 1)
    ELSE IF date.m < 12 THEN Date(date.y, date.m + 1, 1)
    ELSE Date(date.y + 1, 1, 1)

(* C8: for a period with end >= start the calender has                     *)
(* (end - start).days + 1 entries, begins at start, ends at end, and each  *)
(* entry is the day after the one before.                                  *)
C8_CalenderIsEveryDay ==
    (op = "calender" /\ ~DateLT(end, start)) =>
        /\ out.kind = "return"
        /\ Len(out.val) = WholeDays(start, end) + 1
        /\ out.val[1] = start
        /\ out.val[Len(out.val)] = end
        /\ \A i \in 1..(Len(out.val) - 1) : out.val[i + 1] = NextDay(out.val[i])

\* a period over the end of a year
C8_Witness ==
    /\ op = "calender"
    /\ start.y < end.y
    /\ Len(out.val) = 8
    /\ \E i \in 1..(Len(out.val) - 1) :
          out.val[i].y = start.y /\ out.val[i + 1] = Date(end.y, 1, 1)

--------------------------------------------------------------------------
AloneOutcome(person) ==
    long_weekends(start, end, <<person>>, args.tolerance, args.min_count,
                  args.values_in_subgroups)

(* C9: the entry of a person in the report of long_weekends is the one the *)
(* person gets alone, whoever else is in the roster, also when the         *)
(* computation of another person fails.                                    *)
C9_EntryIndependentOfOthers ==
    op = "long_weekends" =>
        \A i \in DOMAIN persons :
            AloneOutcome(persons[i]).kind = "return" =>
                /\ out.kind = "return"
                /\ out.val[persons[i].name] =
                      AloneOutcome(persons[i]).val[persons[i].name]

--------------------------------------------------------------------------
Queries ==
    {"calender", "plan_duration", "paid_holidays", "verbose_paid_holidays",
     "long_weekends"}

(* C10: no query of the planner changes its start, its end or its roster,  *)
(* and a later call of paid_holidays gives what the first call gave.       *)
C10_QueriesChangeNothing ==
    [][/\ op' \in Queries =>
            /\ start' = start
            /\ end' = end
            /\ persons' = persons
            /\ roster' = roster
       /\ (op' = "paid_holidays" /\ firstPaid.set) => out' = firstPaid.out]_vars

\* paid_holidays called again for a roster with holidays
C10_Witness ==
    /\ op = "paid_holidays"
    /\ firstPaid.set
    /\ firstPaid.again
    /\ \E name \in DOMAIN out.val : out.val[name].nunique > 2
    /\ out = firstPaid.out

--------------------------------------------------------------------------
JanuaryScenario ==
    /\ LongWeekendsReturned
    /\ cycle = JanuaryCycle
    /\ roster = JanuaryRoster
    /\ args.tolerance = 0

\* the groups of the list that hold this date
GroupsWith(groups, date) == {g \in DOMAIN groups : date \in Range(groups[g])}

(* C11: for the period 2025-01-01..2025-01-31 with weekly-off {Saturday,   *)
(* Sunday} and the single ad-hoc holiday 2025-01-03, a Friday,             *)
(* long_weekends with tolerance 0 puts Jan 3, Jan 4 and Jan 5 into one     *)
(* group of length 3, and reports that group as a vacation with start      *)
(* Jan 3, end Jan 5 and duration 3.                                        *)
C11_JanuaryLongWeekend ==
    JanuaryScenario =>
        LET groups == out.val["jan"].groups
            subgroups == out.val["jan"].subgroups
        IN  /\ start = Jan(1)
            /\ end = Jan(31)
            /\ weekday(Jan(3)) = ENUMDays.FRIDAY
            /\ \E g \in DOMAIN groups :
                  /\ groups[g] = <<Jan(3), Jan(4), Jan(5)>>
                  /\ GroupsWith(groups, Jan(3)) = {g}
                  /\ GroupsWith(groups, Jan(4)) = {g}
                  /\ GroupsWith(groups, Jan(5)) = {g}
                  /\ PositionLabel(g) \in DOMAIN subgroups
                  /\ subgroups[PositionLabel(g)].start = Jan(3)
                  /\ subgroups[PositionLabel(g)].end = Jan(5)
                  /\ subgroups[PositionLabel(g)].duration = 3

\* the January report at the default min_count, with the dates listed
C11_Witness ==
    /\ JanuaryScenario
    /\ args.min_count = 2
    /\ args.values_in_subgroups
    /\ Len(out.val["jan"].groups) = 4
    /\ out.val["jan"].subgroups["VACATION #001"].duration = 3
    /\ out.val["jan"].subgroups["VACATION #001"].values = <<Jan(3), Jan(4), Jan(5)>>

--------------------------------------------------------------------------
\* the lists the record is made from: the ones given, or the defaults
CreditDatesOf(a) ==
    IF a.n_credit_md.given THEN a.n_credit_md.val ELSE Default_n_credit_md

CreditBalanceOf(a) ==
    IF a.n_credit_balance.given THEN a.n_credit_balance.val
    ELSE Default_n_credit_balance

(* C12: every CustomLeaves record that is constructed has a credit-balance *)
(* list as long as its credit-date list, whatever the length of the        *)
(* credit-date list given, with entries that are all >= 0; a record whose  *)
(* lists differ in length, or with a negative balance, is rejected at      *)
(* construction.                                                           *)
C12_BalanceMatchesCreditDates ==
    op = "CustomLeaves" =>
        /\ out.kind = "return" =>
              /\ out.val.n_credit_balance.type = "list"
              /\ Len(out.val.n_credit_balance.items) = Len(out.val.n_credit_md)
              /\ \A i \in DOMAIN out.val.n_credit_balance.items :
                    out.val.n_credit_balance.items[i] >= 0
        /\ (\/ Len(CreditBalanceOf(args)) # Len(CreditDatesOf(args))
            \/ \E i \in DOMAIN CreditBalanceOf(args) : CreditBalanceOf(args)[i] < 0)
              => out.kind = "raise"

--------------------------------------------------------------------------
\* the positions of the groups that are long enough to be vacations
Qualifying(groups, min_count) ==
    {g \in DOMAIN groups : Len(groups[g]) >= min_count}

\* the labels of the first positions, written out
FirstLabels ==
    <<"VACATION #001", "VACATION #002", "VACATION #003", "VACATION #004",
      "VACATION #005", "VACATION #006", "VACATION #007", "VACATION #008",
      "VACATION #009", "VACATION #010", "VACATION #011", "VACATION #012">>

LabelAt(g) == IF g \in DOMAIN FirstLabels THEN FirstLabels[g] ELSE PositionLabel(g)

(* C13: a vacation is labelled "VACATION #" and the 3-digit, 1-based       *)
(* position of its group in the groups list: subgroups holds exactly one   *)
(* entry per group that is long enough, no two such groups share a label,  *)
(* and a vacation of a smaller index starts before one of a larger index.  *)
C13_LabelsFollowGroupOrder ==
    LongWeekendsReturned =>
        \A name \in DOMAIN out.val :
            LET groups == out.val[name].groups
                subgroups == out.val[name].subgroups
                long == Qualifying(groups, args.min_count)
            IN  /\ DOMAIN subgroups = {LabelAt(g) : g \in long}
                /\ Cardinality(DOMAIN subgroups) = Cardinality(long)
                /\ \A g, h \in long : g # h => LabelAt(g) # LabelAt(h)
                /\ \A g \in long :
                      /\ subgroups[LabelAt(g)].start = groups[g][1]
                      /\ subgroups[LabelAt(g)].end = groups[g][Len(groups[g])]
                /\ \A g, h \in long :
                      g < h => DateLT(subgroups[LabelAt(g)].start,
                                      subgroups[LabelAt(h)].start)

\* a lone holiday before two weekends: the labels begin at #002
C13_Witness ==
    /\ LongWeekendsReturned
    /\ args.min_count = 2
    /\ \E name \in DOMAIN out.val :
          LET groups == out.val[name].groups
              subgroups == out.val[name].subgroups
          IN  /\ Len(groups) = 3
              /\ Len(groups[1]) = 1
              /\ DOMAIN subgroups = {"VACATION #002", "VACATION #003"}
              /\ subgroups["VACATION #002"].start = groups[2][1]
              /\ DateLT(subgroups["VACATION #002"].start,
                        subgroups["VACATION #003"].start)

--------------------------------------------------------------------------
\* what C14 says of the entry of one group, for tolerance t
IsSpanOf(entry, group, t, listed) ==
    /\ entry.start = group[1]
    /\ entry.end = group[Len(group)]
    /\ entry.duration = WholeDays(entry.start, entry.end) + 1
    /\ t = 0 => entry.duration = Len(group)
    /\ Len(group) <= entry.duration
    /\ entry.duration <= Len(group) + t * (Len(group) - 1)
    /\ IF listed THEN Len(entry.values) = entry.duration
                 ELSE entry.values = None

(* C14: a vacation entry has start = the first date of its group, end =    *)
(* the last date, and duration = (end - start).days + 1; the duration is   *)
(* the number of dates of the group at tolerance 0, and between len(group) *)
(* and len(group) + t * (len(group) - 1) at tolerance t; with              *)
(* values_in_subgroups the listed dates are `duration` many.               *)
C14_DurationIsTheSpan ==
    LongWeekendsReturned =>
        \A name \in DOMAIN out.val :
            \A g \in Qualifying(out.val[name].groups, args.min_count) :
                IsSpanOf(out.val[name].subgroups[LabelAt(g)],
                         out.val[name].groups[g],
                         args.tolerance, args.values_in_subgroups)

\* a vacation over a gap: it lasts longer than it has holidays, up to the limit
C14_Witness ==
    /\ LongWeekendsReturned
    /\ args.tolerance = 1
    /\ args.values_in_subgroups
    /\ \E name \in DOMAIN out.val :
          \E g \in Qualifying(out.val[name].groups, args.min_count) :
              LET entry == out.val[name].subgroups[LabelAt(g)]
                  group == out.val[name].groups[g]
              IN  /\ Len(group) = 2
                  /\ entry.duration = 3
                  /\ Len(entry.values) = 3
                  /\ entry.values[2] \notin Range(group)

--------------------------------------------------------------------------
\* the groups long_weekends makes of the holiday list of a person at tolerance t
GroupsAt(name, t) ==
    date_groups(ordinal_groups(to_ordinals(UniqueOf(name)), t))

\* every group of fine lies in exactly one group of coarse, every group of
\* coarse is a run of neighbouring groups of fine put together, and coarse
\* has no more groups than fine
IsCoarserThan(coarse, fine) ==
    /\ \A f \in DOMAIN fine :
          Cardinality({c \in DOMAIN coarse :
                          Range(fine[f]) \subseteq Range(coarse[c])}) = 1
    /\ \A c \in DOMAIN coarse :
          \E i, j \in DOMAIN fine :
              i <= j /\ coarse[c] = Flatten(SubSeq(fine, i, j))
    /\ Len(coarse) <= Len(fine)

(* C15: the grouping is monotone in the tolerance: for one holiday list    *)
(* and t1 <= t2, every group made at t1 lies in exactly one group made at  *)
(* t2, every group made at t2 is neighbouring groups of t1 put together,   *)
(* and t2 gives no more groups than t1.                                    *)
C15_GroupsGrowWithTolerance ==
    LongWeekendsReturned =>
        \A name \in DOMAIN out.val :
            \A t1 \in 0..args.tolerance :
                IsCoarserThan(out.val[name].groups, GroupsAt(name, t1))

\* the docstring's list: three groups at tolerance 0, of which the first two
\* are one group at tolerance 1
C15_Witness ==
    /\ LongWeekendsReturned
    /\ roster = DocRoster
    /\ cycle = DocCycle
    /\ args.tolerance = 1
    /\ Len(GroupsAt("doc", 0)) = 3
    /\ Len(out.val["doc"].groups) = 2
    /\ out.val["doc"].groups[1] = GroupsAt("doc", 0)[1] \o GroupsAt("doc", 0)[2]
    /\ out.val["doc"].groups[2] = GroupsAt("doc", 0)[3]

==========================================================================
